---- MODULE Spec2Model ----
(***************************************************************************)
(* Model of radar_script.py: the driver (__main__), get_latest_timestamp,  *)
(* get_radar_tile_by_latlon and plot_tile_on_map, with the two HTTP        *)
(* endpoints, the image decoder and the plotting library as the            *)
(* environment.                                                            *)
(*                                                                         *)
(* Numbers.  Python floats are IEEE-754 doubles.  A double of magnitude    *)
(* below 256 that is a multiple of 2^-49 is held exactly as a two-limb     *)
(* integer [H, L] = H * 2^28 + L, counted in units of 2^-49, 0 <= L < 2^28 *)
(* (H carries the sign, floor convention).  Every arithmetic result is     *)
(* rounded to 53 significant bits, ties to even, as the hardware does.     *)
(*                                                                         *)
(* Text.  A string that the program formats is a sequence of one-character *)
(* strings, so that formatting is computed and not assumed.                *)
(***************************************************************************)
EXTENDS Integers, Sequences, FiniteSets

(***************************************************************************)
(* CONFIGURATION (radar_script.py lines 23-25)                             *)
(***************************************************************************)
ZOOM == 7
MinZoom == 2
MaxZoom == 9
\* 15.7  = 0x1.f666666666666p+3 = 8838314268714598 * 2^-49
LAT == [H |-> 32925286, L |-> 107374182]
\* 121.7 = 0x1.e6ccccccccccdp+6 = 68511009331373672 * 2^-49
LON == [H |-> 255223398, L |-> 107374184]
AUTO_SAVE == TRUE

\* Largest number of frames in radar.past that the model enumerates.
MaxPast == 2

(***************************************************************************)
(* Double arithmetic                                                       *)
(***************************************************************************)
Base == 2^28
MantissaBits == 53

Norm(h, l) == [H |-> h + (l \div Base), L |-> l % Base]
Zero == [H |-> 0, L |-> 0]
Add(a, b) == Norm(a.H + b.H, a.L + b.L)
Neg(a) == Norm(-a.H - 1, Base - a.L)
Sub(a, b) == Add(a, Neg(b))
Less(a, b) == a.H < b.H \/ (a.H = b.H /\ a.L < b.L)
Abs(a) == IF a.H < 0 THEN Neg(a) ELSE a

\* Number of bits of n, 0 <= n < 2^31: the powers of two not above n.
BitLen(n) == Cardinality({b \in 0..30 : 2^b <= n})

\* Bits of the magnitude that do not fit the 53-bit significand.
DropBits(m) ==
    IF m.H = 0 THEN 0
    ELSE IF 28 + BitLen(m.H) > MantissaBits
         THEN 28 + BitLen(m.H) - MantissaBits
         ELSE 0

\* Round the magnitude m to nearest, ties to even (the default IEEE-754
\* rounding), dropping its k lowest bits.
RoundAt(m, k) ==
    LET q == m.L \div (2^k)
        r == m.L % (2^k)
        up == 2 * r > 2^k \/ (2 * r = 2^k /\ q % 2 = 1)
    IN  IF k = 0 THEN m
        ELSE Norm(m.H, (IF up THEN q + 1 ELSE q) * (2^k))

\* In the operators below an operand is bound by a quantifier, so that it is
\* evaluated once and used as a value.
RoundMag(m) == CHOOSE v \in {RoundAt(x, k) : x \in {m}, k \in {DropBits(m)}} : TRUE

Round53(a) ==
    CHOOSE v \in {IF x.H < 0 THEN Neg(RoundMag(Neg(x))) ELSE RoundMag(x) :
                    x \in {a}} : TRUE

FloatAdd(a, b) == Round53(Add(a, b))
FloatSub(a, b) == Round53(Sub(a, b))

\* x / 2 on a double: exact (the value is an even count of units here).
Half(a) == [H |-> a.H \div 2, L |-> (a.L + (a.H % 2) * Base) \div 2]

(***************************************************************************)
(* plot_tile_on_map, lines 55-57: the extent                               *)
(***************************************************************************)
\* 360 / (2 ** zoom): true division of two ints, correctly rounded.  The
\* quotient is a whole number of units for every zoom up to 24.
Delta(zoom) == Round53([H |-> (360 * (2^21)) \div (2^zoom), L |-> 0])

\* Variant: the box is a full delta wide on each side of the centre.
Extent_full_delta(lat, lon, zoom) ==
    CHOOSE e \in
        {[delta   |-> delta,
          lat_min |-> FloatSub(lat, delta),
          lat_max |-> FloatAdd(lat, delta),
          lon_min |-> FloatSub(lon, delta),
          lon_max |-> FloatAdd(lon, delta)] : delta \in {Delta(zoom)}} : TRUE

Extent(lat, lon, zoom) ==
    CHOOSE e \in
        {[delta   |-> delta,
          lat_min |-> FloatSub(lat, Half(delta)),
          lat_max |-> FloatAdd(lat, Half(delta)),
          lon_min |-> FloatSub(lon, Half(delta)),
          lon_max |-> FloatAdd(lon, Half(delta))] : delta \in {Delta(zoom)}} : TRUE

(***************************************************************************)
(* plot_tile_on_map, lines 107-111: the time stamp as text                 *)
(***************************************************************************)
Digit(d) == <<"0", "1", "2", "3", "4", "5", "6", "7", "8", "9">>[d + 1]

\* "%0wd": n in decimal, zero-padded to at least w characters.
RECURSIVE Pad(_, _)
Pad(n, w) ==
    IF n < 10 /\ w <= 1 THEN <<Digit(n)>>
    ELSE Pad(n \div 10, w - 1) \o <<Digit(n % 10)>>

\* str(n) for a non-negative int.
Str(n) == Pad(n, 1)

\* datetime.datetime.utcfromtimestamp(timestamp): proleptic Gregorian
\* calendar date and time of day of a non-negative count of seconds.
UtcFromTimestamp(ts) ==
    LET days == ts \div 86400
        secs == ts % 86400
        z    == days + 719468
        era  == z \div 146097
        doe  == z - era * 146097
        yoe  == (doe - doe \div 1460 + doe \div 36524 - doe \div 146096) \div 365
        doy  == doe - (365 * yoe + yoe \div 4 - yoe \div 100)
        mp   == (5 * doy + 2) \div 153
        m    == IF mp < 10 THEN mp + 3 ELSE mp - 9
    IN  [year   |-> yoe + era * 400 + (IF m <= 2 THEN 1 ELSE 0),
         month  |-> m,
         day    |-> doy - (153 * mp + 2) \div 5 + 1,
         hour   |-> secs \div 3600,
         minute |-> (secs % 3600) \div 60,
         second |-> secs % 60]

\* dt.strftime('%Y%m%d_%H%M')
StrfStamp(dt) ==
    Pad(dt.year, 4) \o Pad(dt.month, 2) \o Pad(dt.day, 2) \o <<"_">>
        \o Pad(dt.hour, 2) \o Pad(dt.minute, 2)

\* f"radar_{dt.strftime('%Y%m%d_%H%M')}_z{zoom}.png"
Filename(timestamp, zoom) ==
    <<"r", "a", "d", "a", "r", "_">> \o StrfStamp(UtcFromTimestamp(timestamp))
        \o <<"_", "z">> \o Str(zoom) \o <<".", "p", "n", "g">>

(***************************************************************************)
(* Environment: what the two endpoints, the decoder and the plotting       *)
(* library may answer                                                      *)
(***************************************************************************)
\* Frame times served by the metadata endpoint (unix seconds):
\* 2000-02-29 23:59:59, 2023-11-14 22:13:20, 2024-03-01 00:00:00.
Timestamps == {951868799, 1700000000, 1709251200}

Frames ==
    {[hasTime |-> TRUE, time |-> t] : t \in Timestamps}
        \cup {[hasTime |-> FALSE, time |-> 0]}

PastSeqs == UNION {[1..n -> Frames] : n \in 0..MaxPast}

\* A response body: not JSON at all, or JSON with or without "radar",
\* with or without "radar"."past", and the frames of "past".
Bodies ==
    {[valid |-> FALSE, hasRadar |-> FALSE, hasPast |-> FALSE, past |-> <<>>],
     [valid |-> TRUE, hasRadar |-> FALSE, hasPast |-> FALSE, past |-> <<>>],
     [valid |-> TRUE, hasRadar |-> TRUE, hasPast |-> FALSE, past |-> <<>>]}
        \cup {[valid |-> TRUE, hasRadar |-> TRUE, hasPast |-> TRUE, past |-> p] :
                p \in PastSeqs}

TransportErrors == {"ConnectionError", "Timeout"}
TsStatuses == {200, 304, 500}

NoTsResp == [kind |-> "none", err |-> "", status |-> 0,
             body |-> [valid |-> FALSE, hasRadar |-> FALSE, hasPast |-> FALSE,
                       past |-> <<>>]]
\* Variant: the request carries no timeout and the server never answers.
TsResponses_hang == {}

TsResponses ==
    {[kind |-> "transport", err |-> e, status |-> 0, body |-> NoTsResp.body] :
        e \in TransportErrors}
        \cup {[kind |-> "http", err |-> "", status |-> s, body |-> b] :
                s \in TsStatuses, b \in Bodies}

\* Content-Type header values; <<>> is a missing (or empty) header.
CT_image_png == <<"i", "m", "a", "g", "e", "/", "p", "n", "g">>
CT_image == <<"i", "m", "a", "g", "e">>
CT_imag == <<"i", "m", "a", "g">>
CT_Image_png == <<"I", "m", "a", "g", "e", "/", "p", "n", "g">>
CT_text_html == <<"t", "e", "x", "t", "/", "h", "t", "m", "l">>
CT_missing == <<>>
ContentTypes ==
    {CT_image_png, CT_image, CT_imag, CT_Image_png, CT_text_html, CT_missing}
TileStatuses == {200, 204, 404}

NoTileResp == [kind |-> "none", err |-> "", status |-> 0,
               contentType |-> <<>>, decodable |-> FALSE]
TileResponses ==
    {[kind |-> "transport", err |-> e, status |-> 0, contentType |-> <<>>,
      decodable |-> FALSE] : e \in TransportErrors}
        \cup {[kind |-> "http", err |-> "", status |-> s, contentType |-> c,
               decodable |-> d] :
                s \in TileStatuses, c \in ContentTypes, d \in BOOLEAN}

\* Where plot_tile_on_map may raise: nowhere, in plt.subplots, in a drawing
\* call (lines 73-104), in utcfromtimestamp/plt.title, or in plt.savefig.
PlotFailures == {"none", "subplots", "draw", "title", "savefig"}

\* The centres the model runs with: the shipped one, Sydney (-33.9, 151.2)
\* and Reykjavik (64.1, -21.9), each coordinate as its double.
Centres ==
    {[lat |-> LAT, lon |-> LON],
     [lat |-> [H |-> -71093453, L |-> 53687092],
      lon |-> [H |-> 317089382, L |-> 107374176]],
     [lat |-> [H |-> 134427443, L |-> 53687088],
      lon |-> [H |-> -45927629, L |-> 53687092]]}

Configs ==
    {[ZOOM |-> z, LAT |-> c.lat, LON |-> c.lon, AUTO_SAVE |-> s] :
        z \in MinZoom..MaxZoom, c \in Centres, s \in BOOLEAN}

(***************************************************************************)
(* Exceptions                                                              *)
(***************************************************************************)
NoExc == [type |-> "", msg |-> ""]

\* Classes that derive from BaseException but not from Exception.
BaseExceptionOnly == {"KeyboardInterrupt", "SystemExit", "GeneratorExit"}

\* Variant: "except requests.RequestException as e".
Catches_requests_only(type) == type \in {"ConnectionError", "Timeout", "HTTPError"}

\* "except Exception as e" (line 130) catches e.
Catches(type) == type \notin BaseExceptionOnly

\* str(e) of what requests.get raises.
TransportMsg(err) ==
    IF err = "Timeout" THEN "Read timed out." ELSE "Max retries exceeded"

\* Variant: the call of raise_for_status is missing.
RaisesForStatus_never(status) == FALSE

\* r.raise_for_status() (line 34): HTTPError for 400 <= status < 600.
RaisesForStatus(status) == 400 <= status /\ status < 600
StatusMsg(status) ==
    IF status < 500 THEN "Client Error" ELSE "Server Error"

(***************************************************************************)
(* get_latest_timestamp (lines 31-35)                                      *)
(***************************************************************************)
Raise(type, msg) == [ok |-> FALSE, value |-> 0, exc |-> [type |-> type, msg |-> msg]]
Return(v) == [ok |-> TRUE, value |-> v, exc |-> NoExc]

TimestampResult(resp) ==
    IF resp.kind = "transport" THEN Raise(resp.err, TransportMsg(resp.err))
    ELSE IF RaisesForStatus(resp.status)
         THEN Raise("HTTPError", StatusMsg(resp.status))
    ELSE IF ~resp.body.valid THEN Raise("JSONDecodeError", "Expecting value")
    ELSE IF ~resp.body.hasRadar THEN Raise("KeyError", "'radar'")
    ELSE IF ~resp.body.hasPast THEN Raise("KeyError", "'past'")
    ELSE IF Len(resp.body.past) = 0
         THEN Raise("IndexError", "list index out of range")
    ELSE IF ~resp.body.past[Len(resp.body.past)].hasTime
         THEN Raise("KeyError", "'time'")
    ELSE Return(resp.body.past[Len(resp.body.past)].time)

(***************************************************************************)
(* get_radar_tile_by_latlon (lines 38-50)                                  *)
(***************************************************************************)
\* s.startswith(p)
StartsWith(s, p) == Len(s) >= Len(p) /\ SubSeq(s, 1, Len(p)) = p

\* The path parameters of the tile URL, in the order of lines 41-42.
TileUrl(timestamp, zoom, lat, lon, color, tile_size, smooth, snow) ==
    <<timestamp, tile_size, zoom, lat, lon, color, smooth, snow>>

\* Variant: the status code is not looked at.
TileAccepted_content_only(resp) == StartsWith(resp.contentType, CT_image)

\* Variant: the Content-Type header is not looked at.
TileAccepted_status_only(resp) == resp.status = 200

\* Line 46: the response is taken as an image.
TileAccepted(resp) ==
    resp.status = 200 /\ StartsWith(resp.contentType, CT_image)

\* "RGBA" stands for the decoded bitmap, "None" for Python's None.
TileResult(resp) ==
    IF resp.kind = "transport" THEN Raise(resp.err, TransportMsg(resp.err))
    ELSE IF TileAccepted(resp)
         THEN IF resp.decodable THEN Return("RGBA")
              ELSE Raise("UnidentifiedImageError", "cannot identify image file")
    ELSE Return("None")

(***************************************************************************)
(* plot_tile_on_map (lines 53-115)                                         *)
(***************************************************************************)
PlotExc(failAt) ==
    IF failAt = "none" THEN NoExc
    ELSE IF failAt = "subplots" THEN [type |-> "RuntimeError", msg |-> "subplots"]
    ELSE IF failAt = "draw" THEN [type |-> "URLError", msg |-> "draw"]
    ELSE IF failAt = "title" THEN [type |-> "ValueError", msg |-> "title"]
    ELSE [type |-> "OSError", msg |-> "savefig"]

\* The figure when the function is left: plt.subplots (line 66) opens it,
\* plt.close(fig) (line 115) is the last statement of the function.
FigureAfter(failAt) ==
    IF failAt = "subplots" THEN "none"
    ELSE IF failAt = "none" THEN "closed"
    ELSE "open"

\* Variant: savefig is called whatever the save flag.
SavefigCalled_ignores_save(save, failAt) == failAt \in {"none", "savefig"}

\* Line 112 is reached: save is true and nothing raised before it.
SavefigCalled(save, failAt) == save /\ failAt \in {"none", "savefig"}

\* Variant: the "Saved image as" line is printed before savefig runs.
SavedPrinted_before_savefig(save, failAt) == save /\ failAt \in {"none", "savefig"}

\* Line 113 is reached: savefig returned.
SavedPrinted(save, failAt) == save /\ failAt = "none"

(***************************************************************************)
(* State                                                                   *)
(***************************************************************************)
VARIABLES
    config,        \* the CONFIGURATION constants of this run
    pc,            \* position of the driver
    timestamp,     \* main's timestamp (-1: not assigned)
    img,           \* main's img ("unset", "None", "RGBA")
    exc,           \* the exception in flight or handled (NoExc: none)
    log,           \* lines printed to stdout
    files,         \* files created in the working directory, in order
    fig,           \* the matplotlib figure ("none", "open", "closed")
    extent,        \* delta and the extent computed by plot_tile_on_map
    tsResp,        \* answer of the metadata endpoint
    tileResp,      \* answer of the tile endpoint
    tsRequests,    \* GETs sent to the metadata endpoint
    tileRequests,  \* GETs sent to the tile endpoint
    plotCalls,     \* calls of plot_tile_on_map
    exitCode       \* process exit status (-1: still running)

vars == <<config, pc, timestamp, img, exc, log, files, fig, extent, tsResp,
          tileResp, tsRequests, tileRequests, plotCalls, exitCode>>

Line(msg, arg) == [msg |-> msg, arg |-> arg]

NoExtent == [delta |-> Zero, lat_min |-> Zero, lat_max |-> Zero,
             lon_min |-> Zero, lon_max |-> Zero]

Init ==
    /\ config \in Configs
    /\ pc = "init"
    /\ timestamp = -1
    /\ img = "unset"
    /\ exc = NoExc
    /\ log = <<>>
    /\ files = <<>>
    /\ fig = "none"
    /\ extent = NoExtent
    /\ tsResp = NoTsResp
    /\ tileResp = NoTileResp
    /\ tsRequests = 0
    /\ tileRequests = 0
    /\ plotCalls = 0
    /\ exitCode = -1

(***************************************************************************)
(* __main__ (lines 121-131)                                                *)
(***************************************************************************)
\* "if img:" (line 126)
Truthy(v) == v # "None"

\* Variant: the handler starts the run over.
AfterHandler_retry == "get_latest_timestamp"

\* Where control goes after line 131: the script ends.
AfterHandler == "done"

\* Line 122.
main_start ==
    /\ pc = "init"
    /\ log' = Append(log, Line("Fetching latest radar image...", <<>>))
    /\ pc' = "get_latest_timestamp"
    /\ UNCHANGED <<config, timestamp, img, exc, files, fig, extent, tsResp,
                   tileResp, tsRequests, tileRequests, plotCalls, exitCode>>

\* Line 124.
get_latest_timestamp(resp) ==
    /\ pc = "get_latest_timestamp"
    /\ tsRequests' = tsRequests + 1
    /\ tsResp' = resp
    /\ LET r == TimestampResult(resp)
       IN  IF r.ok
           THEN /\ timestamp' = r.value
                /\ pc' = "get_radar_tile_by_latlon"
                /\ exc' = exc
           ELSE /\ exc' = r.exc
                /\ pc' = "except"
                /\ timestamp' = timestamp
    /\ UNCHANGED <<config, img, log, files, fig, extent, tileResp,
                   tileRequests, plotCalls, exitCode>>

\* Line 125.
get_radar_tile_by_latlon(resp) ==
    /\ pc = "get_radar_tile_by_latlon"
    /\ tileRequests' = tileRequests + 1
    /\ tileResp' = resp
    /\ LET r == TileResult(resp)
           fetching == Line("Fetching:",
                            TileUrl(timestamp, config.ZOOM, config.LAT,
                                    config.LON, 6, 256, 0, 0))
       IN  IF r.ok
           THEN /\ img' = r.value
                /\ log' = IF r.value = "None"
                          THEN log \o <<fetching,
                                        Line("Failed to load tile. Status:",
                                             resp.status)>>
                          ELSE Append(log, fetching)
                /\ pc' = "if_img"
                /\ exc' = exc
           ELSE /\ exc' = r.exc
                /\ log' = Append(log, fetching)
                /\ pc' = "except"
                /\ img' = img
    /\ UNCHANGED <<config, timestamp, files, fig, extent, tsResp, tsRequests,
                   plotCalls, exitCode>>

\* Lines 126-127: img is true, plot_tile_on_map runs to its return or to
\* the statement that raises; touched says whether a failing savefig had
\* already created the file.
plot_tile_on_map(failAt, touched) ==
    /\ pc = "if_img"
    /\ Truthy(img)
    /\ touched => failAt = "savefig"
    /\ failAt = "savefig" => config.AUTO_SAVE
    /\ plotCalls' = plotCalls + 1
    /\ extent' = Extent(config.LAT, config.LON, config.ZOOM)
    /\ fig' = FigureAfter(failAt)
    /\ LET filename == Filename(timestamp, config.ZOOM)
       IN  /\ files' = IF SavefigCalled(config.AUTO_SAVE, failAt)
                          /\ (failAt = "none" \/ touched)
                       THEN Append(files, filename)
                       ELSE files
           /\ log' = IF SavedPrinted(config.AUTO_SAVE, failAt)
                     THEN Append(log, Line("Saved image as", filename))
                     ELSE log
    /\ exc' = PlotExc(failAt)
    /\ IF failAt = "none"
       THEN pc' = "done" /\ exitCode' = 0
       ELSE pc' = "except" /\ exitCode' = exitCode
    /\ UNCHANGED <<config, timestamp, img, tsResp, tileResp, tsRequests,
                   tileRequests>>

\* Lines 128-129.
main_no_image ==
    /\ pc = "if_img"
    /\ ~Truthy(img)
    /\ log' = Append(log, Line("No image available.", <<>>))
    /\ pc' = "done"
    /\ exitCode' = 0
    /\ UNCHANGED <<config, timestamp, img, exc, files, fig, extent, tsResp,
                   tileResp, tsRequests, tileRequests, plotCalls>>

\* Lines 130-131: the handler, or the interpreter's exit on an exception
\* that the handler does not catch.
main_except ==
    /\ pc = "except"
    /\ IF Catches(exc.type)
       THEN /\ log' = Append(log, Line("Error:", exc.msg))
            /\ pc' = AfterHandler
            /\ exitCode' = IF AfterHandler = "done" THEN 0 ELSE exitCode
       ELSE /\ log' = log
            /\ pc' = "crashed"
            /\ exitCode' = 1
    /\ UNCHANGED <<config, timestamp, img, exc, files, fig, extent, tsResp,
                   tileResp, tsRequests, tileRequests, plotCalls>>

Next ==
    \/ main_start
    \/ \E resp \in TsResponses : get_latest_timestamp(resp)
    \/ \E resp \in TileResponses : get_radar_tile_by_latlon(resp)
    \/ \E failAt \in PlotFailures, touched \in BOOLEAN :
          plot_tile_on_map(failAt, touched)
    \/ main_no_image
    \/ main_except

Spec == Init /\ [][Next]_vars

\* The script is one thread whose every blocking call returns or raises
\* (requests time out after 10 s and 15 s), so a step that can be taken is
\* taken.
\* The runs of the shipped ZOOM, LAT and LON, with either save flag.
ShippedInit ==
    /\ Init
    /\ config.ZOOM = ZOOM
    /\ config.LAT = LAT
    /\ config.LON = LON

FairSpec == ShippedInit /\ [][Next]_vars /\ WF_vars(Next)

(***************************************************************************)
(* Properties                                                              *)
(***************************************************************************)
LinesOf(msg) == {i \in 1..Len(log) : log[i].msg = msg}
Count(msg) == Cardinality(LinesOf(msg))
LastMsg == IF log = <<>> THEN "" ELSE log[Len(log)].msg

\* The Content-Type values of the model that name an image type.
ImageTypes == {CT_image_png, CT_image}

\* C1: when the tile endpoint answers with a status other than 200, the
\* tile function returns None without raising, and the driver prints
\* "No image available." and ends: plot_tile_on_map is never called, no
\* file is written, no "Error:" line is printed.
C1_NoImageOnNon200 ==
    (tileResp.kind = "http" /\ tileResp.status # 200) =>
        /\ img = "None"
        /\ exc = NoExc
        /\ pc \in {"if_img", "done"}
        /\ plotCalls = 0
        /\ files = <<>>
        /\ fig = "none"
        /\ Count("Error:") = 0
        /\ Count("Saved image as") = 0
        /\ pc = "done" =>
              /\ LastMsg = "No image available."
              /\ Count("No image available.") = 1
              /\ exitCode = 0

C1_Witness ==
    /\ pc = "done"
    /\ tileResp.kind = "http"
    /\ tileResp.status = 404
    /\ tileResp.contentType = CT_image_png
    /\ LastMsg = "No image available."

\* Ways the timestamp stage fails (transport, status, body), and
\* the class of the exception each one raises.
C2_ListedFailure ==
    \/ tsResp.kind = "transport"
    \/ /\ tsResp.kind = "http"
       /\ \/ tsResp.status = 500
          \/ ~tsResp.body.valid
          \/ ~tsResp.body.hasRadar
          \/ ~tsResp.body.hasPast
          \/ tsResp.body.past = <<>>

C2_ExpectedType ==
    IF tsResp.kind = "transport" THEN {tsResp.err}
    ELSE IF tsResp.status = 500 THEN {"HTTPError"}
    ELSE IF ~tsResp.body.valid THEN {"JSONDecodeError"}
    ELSE IF ~tsResp.body.hasRadar \/ ~tsResp.body.hasPast THEN {"KeyError"}
    ELSE {"IndexError"}

\* C2: when the timestamp stage fails (transport error or timeout, status
\* 500, body that is not JSON, "radar" or "past" missing, "past" empty,
\* last frame without "time"), the driver prints one "Error:" line that
\* carries the message of the exception raised, and the tile endpoint is
\* never requested, plot_tile_on_map never called, no file written.
C2_TimestampFailureAborts ==
    /\ C2_ListedFailure => (timestamp = -1 /\ exc.type \in C2_ExpectedType)
    /\ (tsRequests = 1 /\ timestamp = -1) =>
          /\ exc # NoExc
          /\ pc \in {"except", "done"}
          /\ tileRequests = 0
          /\ tileResp = NoTileResp
          /\ Count("Fetching:") = 0
          /\ plotCalls = 0
          /\ files = <<>>
          /\ Count("Saved image as") = 0
          /\ pc = "done" =>
                /\ Count("Error:") = 1
                /\ LastMsg = "Error:"
                /\ log[Len(log)].arg = exc.msg

C2_Witness ==
    /\ pc = "done"
    /\ tsResp.kind = "http"
    /\ tsResp.status = 500
    /\ tsResp.body.hasPast
    /\ Len(tsResp.body.past) = 2
    /\ tsResp.body.past[2].hasTime
    /\ LastMsg = "Error:"
    /\ log[Len(log)].arg = "Server Error"

\* C3: for every tile response received, a decoded image is returned only
\* if the status is exactly 200 and the Content-Type starts with "image";
\* in every other case the function returns None, prints the status code
\* and raises nothing.
C3_TileAcceptance ==
    tileResp.kind = "http" =>
        /\ img = "RGBA" =>
              (tileResp.status = 200 /\ tileResp.contentType \in ImageTypes)
        /\ ~(tileResp.status = 200 /\ tileResp.contentType \in ImageTypes) =>
              /\ img = "None"
              /\ exc = NoExc
              /\ pc # "except"
              /\ \E i \in LinesOf("Failed to load tile. Status:") :
                    log[i].arg = tileResp.status

C3_Witness ==
    /\ tileResp.kind = "http"
    /\ tileResp.status = 200
    /\ tileResp.contentType = CT_Image_png
    /\ tileResp.decodable
    /\ img = "None"
    /\ pc = "done"

\* C4 (as claimed): once plot_tile_on_map has created the figure, the
\* figure is closed before the function is left, whether it returns or
\* raises: no figure is left open after the call.
C4_FigureReleased == plotCalls > 0 => fig # "open"

\* C5: no exception raised by a stage escapes the driver: it is caught by
\* the handler, printed as one "Error: {message}" line, and the process
\* ends with exit status 0 as a successful run does.
C5_NoExceptionEscapes ==
    /\ pc # "crashed"
    /\ exitCode \in {-1, 0}
    /\ pc = "done" => exitCode = 0
    /\ (pc = "done" /\ exc # NoExc) =>
          /\ Count("Error:") = 1
          /\ LastMsg = "Error:"
          /\ log[Len(log)].arg = exc.msg
    /\ (pc = "done" /\ exc = NoExc) => Count("Error:") = 0

C5_Witness ==
    /\ pc = "done"
    /\ exitCode = 0
    /\ exc.type = "UnidentifiedImageError"
    /\ LastMsg = "Error:"

\* The control steps of a linear run, and what the request and call
\* counters may be at each position.
C6_Steps ==
    {<<"init", "get_latest_timestamp">>,
     <<"get_latest_timestamp", "get_radar_tile_by_latlon">>,
     <<"get_latest_timestamp", "except">>,
     <<"get_radar_tile_by_latlon", "if_img">>,
     <<"get_radar_tile_by_latlon", "except">>,
     <<"if_img", "done">>,
     <<"if_img", "except">>,
     <<"except", "done">>}

C6_Counts ==
    /\ tsRequests <= 1
    /\ tileRequests <= 1
    /\ plotCalls <= 1
    /\ pc \notin {"init", "get_latest_timestamp"} => tsRequests = 1
    /\ tileRequests = 1 =>
          (tsRequests = 1 /\ timestamp \in Timestamps /\ tsResp.kind = "http")
    /\ plotCalls = 1 => (tileRequests = 1 /\ img = "RGBA")
    /\ pc = "get_radar_tile_by_latlon" => (timestamp # -1 /\ tileRequests = 0)
    /\ pc = "if_img" => (img \in {"RGBA", "None"} /\ plotCalls = 0)

\* C6: every run follows Init -> TimestampFetched -> TileFetched -> Done
\* with no step repeated: the timestamp endpoint is requested exactly once
\* and before any tile request, the tile endpoint at most once and only
\* after the timestamp request succeeded, the plot at most once and only
\* for a tile that was returned, and no earlier position is re-entered.
C6_LinearOrder ==
    /\ []C6_Counts
    /\ [][/\ <<pc, pc'>> \in C6_Steps
          /\ tsRequests' >= tsRequests
          /\ tileRequests' >= tileRequests
          /\ plotCalls' >= plotCalls
          /\ tileRequests' > tileRequests => tsRequests = 1]_vars

C6_Witness ==
    /\ pc = "done"
    /\ tsRequests = 1
    /\ tileRequests = 1
    /\ plotCalls = 1
    /\ exc = NoExc

\* Reading a file name back: its digits as numbers, its date as a day
\* count, and the layout radar_<YYYYMMDD_HHMM>_z<zoom>.png.
DigitVal(c) == CHOOSE d \in 0..9 : Digit(d) = c

RECURSIVE ParseInt(_)
ParseInt(cs) ==
    IF cs = <<>> THEN 0
    ELSE 10 * ParseInt(SubSeq(cs, 1, Len(cs) - 1)) + DigitVal(cs[Len(cs)])

\* Days from 1970-01-01 to the civil date y-m-d.
DaysFromCivil(y, m, d) ==
    LET yy  == IF m <= 2 THEN y - 1 ELSE y
        era == yy \div 400
        yoe == yy - era * 400
        doy == (153 * (IF m > 2 THEN m - 3 ELSE m + 9) + 2) \div 5 + d - 1
        doe == yoe * 365 + yoe \div 4 - yoe \div 100 + doy
    IN  era * 146097 + doe - 719468

C7_NameOf(name) ==
    /\ Len(name) = 26
    /\ SubSeq(name, 1, 6) = <<"r", "a", "d", "a", "r", "_">>
    /\ name[15] = "_"
    /\ SubSeq(name, 20, 21) = <<"_", "z">>
    /\ SubSeq(name, 23, 26) = <<".", "p", "n", "g">>
    /\ \A i \in (7..14) \cup (16..19) \cup {22} :
          \E d \in 0..9 : name[i] = Digit(d)
    /\ ParseInt(SubSeq(name, 22, 22)) = config.ZOOM
    /\ LET y  == ParseInt(SubSeq(name, 7, 10))
           m  == ParseInt(SubSeq(name, 11, 12))
           d  == ParseInt(SubSeq(name, 13, 14))
           hh == ParseInt(SubSeq(name, 16, 17))
           mm == ParseInt(SubSeq(name, 18, 19))
       IN  /\ m \in 1..12
           /\ d \in 1..31
           /\ hh \in 0..23
           /\ mm \in 0..59
           /\ DaysFromCivil(y, m, d) * 86400 + hh * 3600 + mm * 60
                 = timestamp - (timestamp % 60)

C7_Example ==
    <<"r", "a", "d", "a", "r", "_", "2", "0", "2", "3", "1", "1", "1", "4",
      "_", "2", "2", "1", "3", "_", "z", "7", ".", "p", "n", "g">>

\* C7: at most one PNG is written in a run, and only if the timestamp fetch
\* succeeded, the tile is present and the save flag is true; otherwise no
\* file is written and no "Saved image as" line printed.  The file name and
\* the printed name are radar_<YYYYMMDD_HHMM>_z<zoom>.png of the fetched
\* timestamp (UTC, minutes truncated) and the configured zoom.
C7_AtMostOneOutput ==
    /\ Len(files) <= 1
    /\ Count("Saved image as") <= 1
    /\ (files # <<>> \/ Count("Saved image as") > 0) =>
          /\ timestamp \in Timestamps
          /\ tsResp.kind = "http"
          /\ img = "RGBA"
          /\ config.AUTO_SAVE
          /\ plotCalls = 1
    /\ Count("Saved image as") > 0 => (files # <<>> /\ exc = NoExc)
    /\ \A i \in 1..Len(files) : C7_NameOf(files[i])
    /\ \A i \in LinesOf("Saved image as") :
          /\ C7_NameOf(log[i].arg)
          /\ log[i].arg = files[1]
          /\ (timestamp = 1700000000 /\ config.ZOOM = 7) =>
                log[i].arg = C7_Example

C7_Witness ==
    /\ pc = "done"
    /\ Len(files) = 1
    /\ Count("Saved image as") = 1
    /\ timestamp = 1700000000
    /\ config.ZOOM = 7
    /\ files[1] = C7_Example

\* delta / 2 = 45 * 2^(2 - zoom) as an exact number, and the part of the
\* claim about delta and the strict inequalities.
HalfDelta(zoom) == [H |-> 45 * (2^(23 - zoom)), L |-> 0]

C8_Inside ==
    /\ Less(Zero, extent.delta)
    /\ Add(HalfDelta(config.ZOOM), HalfDelta(config.ZOOM)) = extent.delta
    /\ config.ZOOM = 7 => extent.delta = [H |-> 5898240, L |-> 0]
    /\ Less(extent.lon_min, config.LON)
    /\ Less(config.LON, extent.lon_max)
    /\ Less(extent.lat_min, config.LAT)
    /\ Less(config.LAT, extent.lat_max)

\* C8 (as claimed): for every zoom in 2..9 and every centre, delta =
\* 360 / 2^zoom is positive, lon_min < lon < lon_max, lat_min < lat <
\* lat_max, and the extent is centred exactly: lon - lon_min = lon_max -
\* lon = delta/2 and lat - lat_min = lat_max - lat = delta/2.
C8_ExtentCentredExactly ==
    plotCalls > 0 =>
        /\ C8_Inside
        /\ Sub(config.LON, extent.lon_min) = HalfDelta(config.ZOOM)
        /\ Sub(extent.lon_max, config.LON) = HalfDelta(config.ZOOM)
        /\ Sub(config.LAT, extent.lat_min) = HalfDelta(config.ZOOM)
        /\ Sub(extent.lat_max, config.LAT) = HalfDelta(config.ZOOM)

\* 2^-46, and "a and b differ by at most 2^-46".
Tolerance == [H |-> 0, L |-> 2^3]
Near(a, b) == ~Less(Tolerance, Abs(Sub(a, b)))

\* C8 (amended): delta is positive and equals 360 / 2^zoom, the centre
\* lies strictly inside the extent, and each bound is within 2^-46 (half a
\* unit in the last place of a double below 256) of the centre minus or
\* plus delta/2; the four distances are exactly delta/2 for the shipped
\* configuration (15.7, 121.7, zoom 7).
C8_ExtentCentredToRounding ==
    plotCalls > 0 =>
        /\ C8_Inside
        /\ Near(Sub(config.LON, extent.lon_min), HalfDelta(config.ZOOM))
        /\ Near(Sub(extent.lon_max, config.LON), HalfDelta(config.ZOOM))
        /\ Near(Sub(config.LAT, extent.lat_min), HalfDelta(config.ZOOM))
        /\ Near(Sub(extent.lat_max, config.LAT), HalfDelta(config.ZOOM))
        /\ (config.ZOOM = ZOOM /\ config.LAT = LAT /\ config.LON = LON) =>
              /\ Sub(config.LON, extent.lon_min) = HalfDelta(ZOOM)
              /\ Sub(extent.lon_max, config.LON) = HalfDelta(ZOOM)
              /\ Sub(config.LAT, extent.lat_min) = HalfDelta(ZOOM)
              /\ Sub(extent.lat_max, config.LAT) = HalfDelta(ZOOM)

C8_Witness ==
    /\ plotCalls = 1
    /\ config.ZOOM = 3
    /\ config.LAT = LAT
    /\ config.LON = LON
    /\ Sub(extent.lon_max, config.LON) # HalfDelta(3)
    /\ Near(Sub(extent.lon_max, config.LON), HalfDelta(3))

\* C9: every run eventually reaches Done, whatever mix of success, absent
\* tile and exception occurs, given that each request answers or fails
\* within its timeout and each rendering call returns or raises.
C9_Terminates == <>(pc = "done" /\ exitCode = 0)

C9_Witness ==
    /\ pc = "done"
    /\ exitCode = 0
    /\ tsResp.kind = "transport"
    /\ tsResp.err = "Timeout"

\* C10: at most one of the three outcome lines "Saved image as ...",
\* "No image available." and "Error: ..." is printed in a run.
C10_OneOutcomeLine ==
    Count("Saved image as") + Count("No image available.") + Count("Error:") <= 1

C10_Witness ==
    /\ pc = "done"
    /\ Count("Saved image as") = 1
    /\ Count("No image available.") = 0
    /\ Count("Error:") = 0
====
